---------------------------- MODULE Spec2Model ----------------------------
(***************************************************************************)
(* Model of the Essai Control Panel tool-database viewer (src/src/main.rs):*)
(* the loader (fetch_db, parse_items), the normalizer (field / pick), the  *)
(* key collector (collect_keys, unique), the filter evaluator (passes) and *)
(* the view state mutated by the egui frame handler MyApp::update.         *)
(*                                                                         *)
(* Strings are sequences of byte values (Rust String = UTF-8 bytes, here   *)
(* ASCII), so that sorting, lower-casing and substring search are modelled *)
(* by what they do.  Option<T> is a sequence of length at most one.        *)
(***************************************************************************)
EXTENDS Integers, Sequences, FiniteSets, TLC

VARIABLES
    source,               \* MyApp.source: "Local" | "Online"
    items,                \* MyApp.items: Vec<ToolItem>
    manufacturers,        \* MyApp.manufacturers
    search,               \* MyApp.search
    manufacturer_filter,  \* MyApp.manufacturer_filter: Option<String>
    tool_filter,          \* MyApp.tool_filter: Option<ToolFilter>
    selected,             \* MyApp.selected: Option<usize> (0-based)
    active_tab,           \* MyApp.active_tab
    solfex_keys,          \* MyApp.solfex_keys
    milling_keys,         \* MyApp.milling_keys
    drilling_keys,        \* MyApp.drilling_keys
    show_local_warning,   \* MyApp.show_local_warning
    fetched,              \* outcome of the most recent fetch (Result<String, _>)
    reloaded,             \* the most recent frame called MyApp::reload
    panicked,             \* the most recent frame panicked on items[idx]
    pc,                   \* harness for the pure functions: "idle" | "call" | "done"
    arg,                  \* harness: the input of the function under check
    ret                   \* harness: its result

vars == <<source, items, manufacturers, search, manufacturer_filter, tool_filter,
          selected, active_tab, solfex_keys, milling_keys, drilling_keys,
          show_local_warning, fetched, reloaded, panicked, pc, arg, ret>>

appVars == <<source, items, manufacturers, search, manufacturer_filter, tool_filter,
             selected, active_tab, solfex_keys, milling_keys, drilling_keys,
             show_local_warning, fetched, reloaded, panicked>>

harnessVars == <<pc, arg, ret>>

---------------------------------------------------------------------------
(* Option<T> *)

None == <<>>

Some(x) == <<x>>

(* String::new() / String::default() *)
EmptyString == <<>>

(* The element of a singleton set: { e(x) : x \in {v} } names v once *)
The(S) == CHOOSE x \in S : TRUE

---------------------------------------------------------------------------
(* String constants of the source, as bytes *)

K_Message2 == <<77,101,115,115,97,103,101,50>>

K_Message1 == <<77,101,115,115,97,103,101,49>>

K_Message3 == <<77,101,115,115,97,103,101,51>>

K_HolderName == <<72,111,108,100,101,114,78,97,109,101>>

K_Length == <<76,101,110,103,116,104>>

K_HLength == <<72,76,101,110,103,116,104>>

K_Description == <<68,101,115,99,114,105,112,116,105,111,110>>

K_Diameter == <<68,105,97,109,101,116,101,114>>

K_CuttingLength == <<67,117,116,116,105,110,103,76,101,110,103,116,104>>

S_drilling == <<100,114,105,108,108,105,110,103>>

K_tools == <<116,111,111,108,115>>

K_tool_name == <<116,111,111,108,95,110,97,109,101>>

K_sc_tool_type == <<115,99,95,116,111,111,108,95,116,121,112,101>>

K_Solfex == <<83,111,108,102,101,120>>

K_milling_tool == <<109,105,108,108,105,110,103,95,116,111,111,108>>

K_drilling_tool == <<100,114,105,108,108,105,110,103,95,116,111,111,108>>

S_true == <<116,114,117,101>>

S_false == <<102,97,108,115,101>>

---------------------------------------------------------------------------
(* serde_json::Value *)

JString(s) == [t |-> "String", s |-> s]

JNumber(n) == [t |-> "Number", n |-> n]

JBool(b) == [t |-> "Bool", b |-> b]

JNull == [t |-> "Null"]

JArray(a) == [t |-> "Array", a |-> a]

JObject(m) == [t |-> "Object", m |-> m]

(* i64::to_string / u64::to_string: canonical decimal *)
RECURSIVE nat_to_string(_)
nat_to_string(n) ==
    IF n < 10 THEN <<48 + n>>
    ELSE Append(nat_to_string(n \div 10), 48 + (n % 10))

number_to_string(n) ==
    IF n < 0 THEN <<45>> \o nat_to_string(0 - n) ELSE nat_to_string(n)

bool_to_string(b) == IF b THEN S_true ELSE S_false

val_to_string(v) ==
    CASE v.t = "String" -> v.s
      [] v.t = "Number" -> number_to_string(v.n)
      [] v.t = "Bool" -> bool_to_string(v.b)
      [] OTHER -> EmptyString

(* Value::get(key): Some only on an object that holds the key *)
value_get(v, key) ==
    IF v.t = "Object" /\ key \in DOMAIN v.m THEN Some(v.m[key]) ELSE None

(* field: sec.as_ref()?.get(key).map(val_to_string) *)
field(sec, key) ==
    IF sec = None THEN None
    ELSE LET g == value_get(sec[1], key)
         IN  IF g = None THEN None ELSE Some(val_to_string(g[1]))

(* Mutant: an empty primary value falls through to the secondary section. *)
pick_skips_empty(pri, sec, k) ==
    LET a == field(pri, k)
        b == field(sec, k)
    IN  IF a # None /\ a[1] # EmptyString THEN a[1]
        ELSE IF b # None THEN b[1]
        ELSE EmptyString

(* pick: field(pri, k).or_else(|| field(sec, k)).unwrap_or_default() *)
pick(pri, sec, k) ==
    LET a == field(pri, k)
    IN  IF a # None THEN a[1]
        ELSE LET b == field(sec, k)
             IN  IF b # None THEN b[1] ELSE EmptyString

(* Mutant: the milling section is primary whatever the tool type. *)
pri_sec_milling_first(t) == <<t.milling_tool, t.drilling_tool>>

(* (pri, sec) = match t.sc_tool_type.as_str() { "drilling" => .., _ => .. } *)
pri_sec(t) ==
    IF t.sc_tool_type = S_drilling
    THEN <<t.drilling_tool, t.milling_tool>>
    ELSE <<t.milling_tool, t.drilling_tool>>

(* The closure of parse_items: ToolEntry -> ToolItem *)
to_item(t) ==
    LET ps == pri_sec(t)
        pri == ps[1]
        sec == ps[2]
    IN  [ tool_name    |-> t.tool_name,
          essai_part   |-> pick(pri, sec, K_Message2),
          edp_num      |-> pick(pri, sec, K_Message1),
          manufacturer |-> pick(pri, sec, K_Message3),
          holder_name  |-> pick(pri, sec, K_HolderName),
          outside_len  |-> pick(pri, sec, K_Length),
          gage_len     |-> pick(pri, sec, K_HLength),
          description  |-> pick(pri, sec, K_Description),
          diameter     |-> pick(pri, sec, K_Diameter),
          loc          |-> pick(pri, sec, K_CuttingLength),
          solfex       |-> t.solfex,
          milling      |-> t.milling_tool,
          drilling     |-> t.drilling_tool ]

---------------------------------------------------------------------------
(* Texts and their deserialization.  A text is either the serialization of *)
(* a JSON value or a byte string that is no JSON document ("" included).   *)

JsonText(v) == [json |-> TRUE, doc |-> v]

PlainText(s) == [json |-> FALSE, bytes |-> s]

(* Option<Value> field with #[serde(default)]: absent or null -> None *)
de_option(map, key) ==
    IF key \in DOMAIN map /\ map[key].t # "Null" THEN Some(map[key]) ELSE None

(* String field without default: must be present and a JSON string *)
has_string(map, key) == key \in DOMAIN map /\ map[key].t = "String"

(* #[derive(Deserialize)] struct ToolEntry from a JSON object; None = Err *)
de_entry(v) ==
    IF v.t = "Object" /\ has_string(v.m, K_tool_name) /\ has_string(v.m, K_sc_tool_type)
    THEN Some([ tool_name     |-> v.m[K_tool_name].s,
                sc_tool_type  |-> v.m[K_sc_tool_type].s,
                solfex        |-> de_option(v.m, K_Solfex),
                milling_tool  |-> de_option(v.m, K_milling_tool),
                drilling_tool |-> de_option(v.m, K_drilling_tool) ])
    ELSE None

(* Mutant: entries that do not deserialize are dropped, the rest kept. *)
de_database_lenient(v) ==
    IF v.t = "Object" /\ K_tools \in DOMAIN v.m /\ v.m[K_tools].t = "Array"
    THEN LET a == v.m[K_tools].a
             good == SelectSeq(a, LAMBDA e : de_entry(e) # None)
         IN  Some([i \in 1..Len(good) |-> de_entry(good[i])[1]])
    ELSE None

(* #[derive(Deserialize)] struct ToolDatabase { tools: Vec<ToolEntry> } *)
de_database(v) ==
    IF v.t = "Object" /\ K_tools \in DOMAIN v.m /\ v.m[K_tools].t = "Array"
    THEN LET a == v.m[K_tools].a
         IN  IF \A i \in 1..Len(a) : de_entry(a[i]) # None
             THEN Some([i \in 1..Len(a) |-> de_entry(a[i])[1]])
             ELSE None
    ELSE None

(* serde_json::from_str::<ToolDatabase>(raw); None = Err *)
from_str(raw) == IF raw.json THEN de_database(raw.doc) ELSE None

parse_items(raw) ==
    LET db == from_str(raw)
        tools == IF db = None THEN <<>> ELSE db[1]
    IN  [i \in 1..Len(tools) |-> to_item(tools[i])]

(* fetch_db: the outcome res of read_to_string / get(..).text(), then       *)
(* unwrap_or_default()                                                      *)
fetch_db(res) == IF res.ok THEN res.text ELSE PlainText(EmptyString)

---------------------------------------------------------------------------
(* Vec<String> helpers: sort (byte-wise Ord of String), dedup, unique *)

(* a < b in the lexicographic order of the bytes *)
str_lt(a, b) ==
    \E i \in 1..(Len(a) + 1) :
        /\ \A j \in 1..(i - 1) : j <= Len(b) /\ a[j] = b[j]
        /\ \/ i = Len(a) + 1 /\ i <= Len(b)
           \/ i <= Len(a) /\ i <= Len(b) /\ a[i] < b[i]

RECURSIVE insert_sorted(_, _)
insert_sorted(x, v) ==
    IF v = <<>> THEN <<x>>
    ELSE IF str_lt(x, Head(v)) THEN <<x>> \o v
    ELSE <<Head(v)>> \o insert_sorted(x, Tail(v))

(* Vec::sort *)
RECURSIVE sort(_)
sort(v) == IF v = <<>> THEN <<>> ELSE insert_sorted(Head(v), sort(Tail(v)))

(* Vec::dedup: consecutive equal elements collapse *)
RECURSIVE dedup(_)
dedup(v) ==
    IF Len(v) <= 1 THEN v
    ELSE IF v[1] = v[2] THEN dedup(Tail(v))
    ELSE <<v[1]>> \o dedup(Tail(v))

unique(strs) == dedup(sort(SelectSeq(strs, LAMBDA s : s # EmptyString)))

(* The selector closures |t| &t.solfex, |t| &t.milling, |t| &t.drilling *)
section(it, sel) ==
    CASE sel = "Solfex" -> it.solfex
      [] sel = "Milling" -> it.milling
      [] sel = "Drilling" -> it.drilling

(* The HashSet after the loop of collect_keys *)
RECURSIVE key_set(_, _)
key_set(its, sel) ==
    IF its = <<>> THEN {}
    ELSE LET s == section(Head(its), sel)
             here == IF s # None /\ s[1].t = "Object" THEN DOMAIN s[1].m ELSE {}
         IN  here \cup key_set(Tail(its), sel)

(* set.into_iter().collect(): the elements in some order *)
RECURSIVE into_vec(_)
into_vec(S) ==
    IF S = {} THEN <<>>
    ELSE LET x == CHOOSE y \in S : TRUE IN <<x>> \o into_vec(S \ {x})

(* Mutant: keys kept in first-seen order, without the final sort. *)
RECURSIVE first_seen(_, _, _)
first_seen(its, sel, acc) ==
    IF its = <<>> THEN acc
    ELSE LET s == section(Head(its), sel)
             here == IF s # None /\ s[1].t = "Object" THEN DOMAIN s[1].m ELSE {}
             fresh == sort(into_vec(here \ {acc[i] : i \in 1..Len(acc)}))
         IN  first_seen(Tail(its), sel, acc \o fresh)

collect_keys_unsorted(its, sel) == first_seen(its, sel, <<>>)

collect_keys(its, sel) == sort(into_vec(key_set(its, sel)))

---------------------------------------------------------------------------
(* Filter evaluator *)

Family(e) == [kind |-> "Family", part |-> e]

Class(e, h) == [kind |-> "Class", part |-> e, holder |-> h]

(* str::to_lowercase on ASCII *)
to_lowercase(s) ==
    [i \in 1..Len(s) |-> IF s[i] >= 65 /\ s[i] <= 90 THEN s[i] + 32 ELSE s[i]]

(* str::contains(&str) *)
contains(h, n) ==
    \E off \in 0..(Len(h) - Len(n)) : SubSeq(h, off + 1, off + Len(n)) = n

(* Mutant: the search text is compared without lower-casing it. *)
passes_search_case(self, it) ==
    IF self.manufacturer_filter # None /\ it.manufacturer # self.manufacturer_filter[1]
    THEN FALSE
    ELSE IF self.tool_filter # None
    THEN LET f == self.tool_filter[1]
         IN  IF f.kind = "Family" THEN it.essai_part = f.part
             ELSE it.essai_part = f.part /\ it.holder_name = f.holder
    ELSE self.search = EmptyString
         \/ contains(to_lowercase(it.tool_name), self.search)

passes(self, it) ==
    IF self.manufacturer_filter # None /\ it.manufacturer # self.manufacturer_filter[1]
    THEN FALSE
    ELSE IF self.tool_filter # None
    THEN LET f == self.tool_filter[1]
         IN  IF f.kind = "Family" THEN it.essai_part = f.part
             ELSE it.essai_part = f.part /\ it.holder_name = f.holder
    ELSE self.search = EmptyString
         \/ contains(to_lowercase(it.tool_name), to_lowercase(self.search))

---------------------------------------------------------------------------
(* What the file system and the network may hold: documents of up to       *)
(* MaxTools entries drawn from EntryPool, and texts that do not parse.     *)

MaxTools == 2

B_A == <<65>>

B_B == <<66>>

B_C == <<67>>

S_T1 == <<84,49>>

S_t2 == <<116,50>>

S_milling == <<109,105,108,108,105,110,103>>

S_P1 == <<80,49>>

S_H1 == <<72,49>>

S_H2 == <<72,50>>

S_M1 == <<77,49>>

S_M2 == <<77,50>>

S_10 == <<49,48>>

S_99 == <<57,57>>

S_not_json == <<110,111,116,32,106,115,111,110>>

(* {"tool_name":"T1","sc_tool_type":"drilling",
    "drilling_tool":{"Length":"10","Message2":"P1"},
    "milling_tool":{"Length":"99","HolderName":"H1","Message3":"M1"},
    "Solfex":{"A":1,"B":true}} *)
EntryT1 ==
    JObject(K_tool_name :> JString(S_T1) @@ K_sc_tool_type :> JString(S_drilling)
            @@ K_drilling_tool :> JObject(K_Length :> JString(S_10)
                                          @@ K_Message2 :> JString(S_P1))
            @@ K_milling_tool :> JObject(K_Length :> JString(S_99)
                                         @@ K_HolderName :> JString(S_H1)
                                         @@ K_Message3 :> JString(S_M1))
            @@ K_Solfex :> JObject(B_A :> JNumber(1) @@ B_B :> JBool(TRUE)))

(* {"tool_name":"t2","sc_tool_type":"milling",
    "milling_tool":{"Message3":"M2","HolderName":"H2"},
    "Solfex":{"B":"x","C":null},"drilling_tool":null}: no Message2 *)
EntryT2 ==
    JObject(K_tool_name :> JString(S_t2) @@ K_sc_tool_type :> JString(S_milling)
            @@ K_milling_tool :> JObject(K_Message3 :> JString(S_M2)
                                         @@ K_HolderName :> JString(S_H2))
            @@ K_Solfex :> JObject(B_B :> JString(<<120>>) @@ B_C :> JNull)
            @@ K_drilling_tool :> JNull)

(* {"sc_tool_type":"milling","milling_tool":{"Message2":"P1"}}: no tool_name *)
EntryNoName ==
    JObject(K_sc_tool_type :> JString(S_milling)
            @@ K_milling_tool :> JObject(K_Message2 :> JString(S_P1)))

EntryPool == {EntryT1, EntryT2}

SeqsUpTo(S, n) == UNION {[1..k -> S] : k \in 0..n}

Document(entries) == JsonText(JObject(K_tools :> JArray(entries)))

(* Texts that do not parse as the tool database: "", "not json", {} (no
   "tools"), and documents with an entry that lacks tool_name *)
BadTexts ==
    {PlainText(EmptyString), PlainText(S_not_json), JsonText(JObject(<<>>)),
     Document(<<EntryNoName>>), Document(<<EntryT1, EntryNoName>>)}

Texts == {Document(es) : es \in SeqsUpTo(EntryPool, MaxTools)} \cup BadTexts

FetchErr == [ok |-> FALSE, text |-> PlainText(EmptyString)]

FetchResults == {FetchErr} \cup {[ok |-> TRUE, text |-> t] : t \in Texts}

SearchTexts == {EmptyString, S_T1}

Tabs == {"Solfex", "Milling", "Drilling"}

---------------------------------------------------------------------------
(* MyApp as a value: the handlers below are functions on it, composed in   *)
(* the order the statements of the source run.                             *)

Self ==
    [ source |-> source, items |-> items, manufacturers |-> manufacturers,
      search |-> search, manufacturer_filter |-> manufacturer_filter,
      tool_filter |-> tool_filter, selected |-> selected, active_tab |-> active_tab,
      solfex_keys |-> solfex_keys, milling_keys |-> milling_keys,
      drilling_keys |-> drilling_keys, show_local_warning |-> show_local_warning,
      fetched |-> fetched, reloaded |-> reloaded, panicked |-> panicked ]

Commit(s) ==
    /\ source' = s.source
    /\ items' = s.items
    /\ manufacturers' = s.manufacturers
    /\ search' = s.search
    /\ manufacturer_filter' = s.manufacturer_filter
    /\ tool_filter' = s.tool_filter
    /\ selected' = s.selected
    /\ active_tab' = s.active_tab
    /\ solfex_keys' = s.solfex_keys
    /\ milling_keys' = s.milling_keys
    /\ drilling_keys' = s.drilling_keys
    /\ show_local_warning' = s.show_local_warning
    /\ fetched' = s.fetched
    /\ reloaded' = s.reloaded
    /\ panicked' = s.panicked

(* What reload and Default compute from a fetch outcome: the record list  *)
(* and the lists derived from it.  fetch_db(src) applies unwrap_or_default *)
(* to the outcome res of the read of the file (Local) or of the GET        *)
(* (Online); the rest does not depend on the source.                       *)
load(res) ==
    The({ [ items |-> its,
            manufacturers |-> unique([i \in 1..Len(its) |-> its[i].manufacturer]),
            solfex_keys |-> collect_keys(its, "Solfex"),
            milling_keys |-> collect_keys(its, "Milling"),
            drilling_keys |-> collect_keys(its, "Drilling") ]
          : its \in {parse_items(fetch_db(res))} })

(* load, tabulated over the outcomes a fetch can have *)
Loaded == [res \in FetchResults |-> load(res)]

(* impl Default for MyApp *)
default(res) ==
    The({ [ source |-> "Online", items |-> l.items,
          manufacturers |-> l.manufacturers,
          search |-> EmptyString, manufacturer_filter |-> None,
          tool_filter |-> None, selected |-> None, active_tab |-> "Solfex",
          solfex_keys |-> l.solfex_keys,
          milling_keys |-> l.milling_keys,
          drilling_keys |-> l.drilling_keys,
          show_local_warning |-> FALSE,
          fetched |-> res, reloaded |-> FALSE, panicked |-> FALSE ]
          : l \in {Loaded[res]} })

(* Mutant: reload also clears the filters and the search text. *)
reload_clears_filters(self, res) ==
    The({ [self EXCEPT !.items = l.items,
                     !.manufacturers = l.manufacturers,
                     !.solfex_keys = l.solfex_keys,
                     !.milling_keys = l.milling_keys,
                     !.drilling_keys = l.drilling_keys,
                     !.selected = None,
                     !.manufacturer_filter = None,
                     !.tool_filter = None,
                     !.search = EmptyString,
                     !.fetched = res,
                     !.reloaded = TRUE]
          : l \in {Loaded[res]} })

(* Mutant: reload leaves milling_keys as they were. *)
reload_stale_keys(self, res) ==
    The({ [self EXCEPT !.items = l.items,
                     !.manufacturers = l.manufacturers,
                     !.solfex_keys = l.solfex_keys,
                     !.drilling_keys = l.drilling_keys,
                     !.selected = None,
                     !.fetched = res,
                     !.reloaded = TRUE]
          : l \in {Loaded[res]} })

(* MyApp::reload *)
reload(self, res) ==
    The({ [self EXCEPT !.items = l.items,
                     !.manufacturers = l.manufacturers,
                     !.solfex_keys = l.solfex_keys,
                     !.milling_keys = l.milling_keys,
                     !.drilling_keys = l.drilling_keys,
                     !.selected = None,
                     !.fetched = res,
                     !.reloaded = TRUE]
          : l \in {Loaded[res]} })

(* The input event of a frame: the widget that is clicked or edited, and   *)
(* its row, text or tab                                                     *)
Ev(kind, x) == [kind |-> kind, x |-> x]

(* Database menu: ui.radio_value(&mut self.source, ..) for Local and for   *)
(* Online; a click on Local also raises the warning                        *)
radio_value(self, ev) ==
    CASE ev.kind = "Local" ->
             [self EXCEPT !.source = "Local", !.show_local_warning = TRUE]
      [] ev.kind = "Online" -> [self EXCEPT !.source = "Online"]
      [] OTHER -> self

(* Manufacturer menu ("All", one button per manufacturer) and the chip's ✖ *)
manufacturer_menu(self, ev) ==
    CASE ev.kind = "MfgAll" -> [self EXCEPT !.manufacturer_filter = None]
      [] ev.kind = "MfgPick" -> [self EXCEPT !.manufacturer_filter = Some(ev.x)]
      [] ev.kind = "MfgDismiss" -> [self EXCEPT !.manufacturer_filter = None]
      [] OTHER -> self

(* LOCAL warning modal: OK closes it *)
warning_modal(self, ev) ==
    [self EXCEPT !.show_local_warning = @ /\ ev.kind # "WarnOK"]

(* Left panel, head: the search box and the tool-filter chip's ✖ *)
search_and_chip(self, ev) ==
    CASE ev.kind = "Search" -> [self EXCEPT !.search = ev.x]
      [] ev.kind = "ChipDismiss" -> [self EXCEPT !.tool_filter = None]
      [] OTHER -> self

(* next_sel after the loop over the rows: the click toggles row ev.x *)
next_sel(self, ev) ==
    IF ev.kind = "ClickItem"
    THEN (IF self.selected = Some(ev.x) THEN None ELSE Some(ev.x))
    ELSE self.selected

(* Mutant: the context actions set the filter without looking at essai_part. *)
context_menu_unguarded(self, ev) ==
    CASE ev.kind = "Family" -> Some(Family(self.items[ev.x + 1].essai_part))
      [] ev.kind = "Class" -> Some(Class(self.items[ev.x + 1].essai_part,
                                         self.items[ev.x + 1].holder_name))
      [] OTHER -> None

(* next_filter after the loop over the rows: the context menu of row ev.x *)
context_menu(self, ev) ==
    CASE ev.kind = "Family" /\ self.items[ev.x + 1].essai_part # EmptyString ->
             Some(Family(self.items[ev.x + 1].essai_part))
      [] ev.kind = "Class" /\ self.items[ev.x + 1].essai_part # EmptyString ->
             Some(Class(self.items[ev.x + 1].essai_part,
                        self.items[ev.x + 1].holder_name))
      [] OTHER -> None

(* self.selected = next_sel; if let Some(f) = next_filter { .. } *)
left_panel_commit(self, nsel, nfil) ==
    [self EXCEPT !.selected = nsel,
                 !.tool_filter = IF nfil # None THEN Some(nfil[1]) ELSE @]

(* self.items[idx]: the slice index panics when idx >= len *)
index_panics(self) == self.selected # None /\ self.selected[1] >= Len(self.items)

(* Right panel: reads self.items[idx] for the selection *)
right_panel(self) == [self EXCEPT !.panicked = index_panics(self)]

(* Center panel: tab strip, then self.items[i] for the active tab *)
center_panel(self, ev) ==
    [self EXCEPT !.active_tab = IF ev.kind = "Tab" THEN ev.x ELSE @,
                 !.panicked = index_panics(self)]

(* impl App for MyApp: update, for a frame whose one input event is ev (the *)
(* widgets whose event it is not report clicked() = false).  The statements *)
(* run in the order of the source, each on the state the previous one left; *)
(* a panic ends the frame.                                                  *)
update(ev, res) ==
    \E s0 \in {[Self EXCEPT !.reloaded = FALSE]} :
    \E s1 \in {radio_value(s0, ev)} :
    \E s2 \in {IF s0.source # s1.source THEN reload(s1, res) ELSE s1} :
    \E s3 \in {manufacturer_menu(s2, ev)} :
    \E s4 \in {warning_modal(s3, ev)} :
    \E s5 \in {search_and_chip(s4, ev)} :
    \E nsel \in {next_sel(s5, ev)} :
    \E nfil \in {context_menu(s5, ev)} :
    \E s6 \in {IF ev.kind = "Refresh" THEN reload(s5, res) ELSE s5} :
    \E s7 \in {left_panel_commit(s6, nsel, nfil)} :
    \E s8 \in {right_panel(s7)} :
    \E s9 \in {IF s8.panicked THEN s8 ELSE center_panel(s8, ev)} :
        Commit(s9)

---------------------------------------------------------------------------
(* The application: start-up, then one action per input event of a frame   *)

(* The variables hold the fields of s *)
AppIs(s) ==
    /\ source = s.source
    /\ items = s.items
    /\ manufacturers = s.manufacturers
    /\ search = s.search
    /\ manufacturer_filter = s.manufacturer_filter
    /\ tool_filter = s.tool_filter
    /\ selected = s.selected
    /\ active_tab = s.active_tab
    /\ solfex_keys = s.solfex_keys
    /\ milling_keys = s.milling_keys
    /\ drilling_keys = s.drilling_keys
    /\ show_local_warning = s.show_local_warning
    /\ fetched = s.fetched
    /\ reloaded = s.reloaded
    /\ panicked = s.panicked

(* main: MyApp::default(), whatever the first fetch answers *)
Init ==
    /\ \E res \in FetchResults : \E s \in {default(res)} : AppIs(s)
    /\ pc = "idle"
    /\ arg = None
    /\ ret = None

(* A frame of a running application; res is read only if the frame reloads *)
Frame(ev, res) ==
    /\ pc = "idle"
    /\ ~panicked
    /\ update(ev, res)
    /\ UNCHANGED harnessVars

(* The row of items[i] is drawn: it passes the filters *)
Listed(i) == i \in 0..(Len(items) - 1) /\ passes(Self, items[i + 1])

ClickLocal ==
    \E res \in (IF source # "Local" THEN FetchResults ELSE {fetched}) :
        Frame(Ev("Local", 0), res)

ClickOnline ==
    \E res \in (IF source # "Online" THEN FetchResults ELSE {fetched}) :
        Frame(Ev("Online", 0), res)

ManufacturerAll == Frame(Ev("MfgAll", 0), fetched)

ManufacturerPick ==
    \E i \in 1..Len(manufacturers) : Frame(Ev("MfgPick", manufacturers[i]), fetched)

ManufacturerDismiss == manufacturer_filter # None /\ Frame(Ev("MfgDismiss", 0), fetched)

WarningOK == show_local_warning /\ Frame(Ev("WarnOK", 0), fetched)

EditSearch == \E txt \in SearchTexts : Frame(Ev("Search", txt), fetched)

ChipDismiss == tool_filter # None /\ Frame(Ev("ChipDismiss", 0), fetched)

ClickItem == \E i \in 0..(Len(items) - 1) : Listed(i) /\ Frame(Ev("ClickItem", i), fetched)

ShowToolFamily(i) == Listed(i) /\ Frame(Ev("Family", i), fetched)

ShowToolClass(i) == Listed(i) /\ Frame(Ev("Class", i), fetched)

Refresh == \E res \in FetchResults : Frame(Ev("Refresh", 0), res)

ClickTab == \E tab \in Tabs : Frame(Ev("Tab", tab), fetched)

Next ==
    \/ ClickLocal
    \/ ClickOnline
    \/ ManufacturerAll
    \/ ManufacturerPick
    \/ ManufacturerDismiss
    \/ WarningOK
    \/ EditSearch
    \/ ChipDismiss
    \/ ClickItem
    \/ \E i \in 0..(Len(items) - 1) : ShowToolFamily(i)
    \/ \E i \in 0..(Len(items) - 1) : ShowToolClass(i)
    \/ Refresh
    \/ ClickTab

Spec == Init /\ [][Next]_vars

---------------------------------------------------------------------------
(* The normalizer on its own: to_item applied to one deserialized entry     *)

S_Drilling == <<68,114,105,108,108,105,110,103>>

S_S == <<83>>

DisplayKeys ==
    {K_Message2, K_Message1, K_Message3, K_HolderName, K_Length, K_HLength,
     K_Description, K_Diameter, K_CuttingLength}

(* The values a key may hold in a section *)
FieldValues ==
    {JString(S_10), JString(S_99), JString(EmptyString), JNumber(7), JNumber(0 - 12),
     JBool(TRUE), JNull, JArray(<<>>)}

(* The milling_tool / drilling_tool sections tried for key k: absent, a    *)
(* scalar, an empty object, an object with another key, an object with k   *)
SectionInputs(k) ==
    {None, Some(JString(S_10)), Some(JObject(<<>>)), Some(JObject(B_A :> JString(S_H1)))}
    \cup {Some(JObject(k :> v)) : v \in FieldValues}

EntryInputs ==
    UNION { [ tool_name : {S_T1},
              sc_tool_type : {S_drilling, S_milling, S_Drilling, EmptyString},
              solfex : {None, Some(JObject(k :> JString(S_S)))},
              milling_tool : SectionInputs(k),
              drilling_tool : SectionInputs(k) ] : k \in DisplayKeys }

AppIdle == \E s \in {default(FetchErr)} : AppIs(s)

InitNormalize ==
    /\ AppIdle
    /\ pc = "call"
    /\ arg \in EntryInputs
    /\ ret = None

CallToItem ==
    /\ pc = "call"
    /\ ret' = to_item(arg)
    /\ pc' = "done"
    /\ UNCHANGED <<appVars, arg>>

SpecNormalize == InitNormalize /\ [][CallToItem]_vars

---------------------------------------------------------------------------
(* The filter evaluator on its own: passes applied to one item under every *)
(* setting of the three filters                                             *)

MaxText == 2

Letters == {65, 97, 98}

TextInputs == SeqsUpTo(Letters, MaxText)

ItemWith(name, mfr, part, holder) ==
    [ tool_name |-> name, essai_part |-> part, edp_num |-> EmptyString,
      manufacturer |-> mfr, holder_name |-> holder, outside_len |-> EmptyString,
      gage_len |-> EmptyString, description |-> EmptyString,
      diameter |-> EmptyString, loc |-> EmptyString,
      solfex |-> None, milling |-> None, drilling |-> None ]

ItemInputs ==
    { ItemWith(n, m, e, h) :
        n \in TextInputs, m \in {S_M1, S_M2}, e \in {EmptyString, S_P1}, h \in {S_H1, S_H2} }

InitPasses ==
    /\ \E s \in {default(FetchErr)} :
       \E txt \in TextInputs :
       \E mf \in {None, Some(S_M1)} :
       \E tf \in {None, Some(Family(S_P1)), Some(Family(EmptyString)),
                  Some(Class(S_P1, S_H1))} :
          AppIs([s EXCEPT !.search = txt, !.manufacturer_filter = mf,
                          !.tool_filter = tf])
    /\ pc = "call"
    /\ arg \in ItemInputs
    /\ ret = None

CallPasses ==
    /\ pc = "call"
    /\ ret' = passes(Self, arg)
    /\ pc' = "done"
    /\ UNCHANGED <<appVars, arg>>

SpecPasses == InitPasses /\ [][CallPasses]_vars

---------------------------------------------------------------------------
(* The key collector on its own: collect_keys applied to a record list and *)
(* to another list of the same records, reordered or repeated              *)

MaxLen == 2

B_AB == <<65,66>>

B_a == <<97>>

SectionItem(solf, mil, dri) ==
    [ tool_name |-> S_T1, essai_part |-> EmptyString, edp_num |-> EmptyString,
      manufacturer |-> EmptyString, holder_name |-> EmptyString,
      outside_len |-> EmptyString, gage_len |-> EmptyString,
      description |-> EmptyString, diameter |-> EmptyString, loc |-> EmptyString,
      solfex |-> solf, milling |-> mil, drilling |-> dri ]

ItemAB ==
    SectionItem(Some(JObject(B_A :> JNumber(1) @@ B_B :> JNumber(2))),
                Some(JObject(B_C :> JNull)), None)

ItemBC ==
    SectionItem(Some(JObject(B_B :> JNumber(3) @@ B_C :> JBool(FALSE))),
                None, Some(JObject(B_A :> JString(S_10))))

ItemScalar ==
    SectionItem(Some(JString(S_S)), Some(JArray(<<>>)), Some(JObject(<<>>)))

ItemMixed ==
    SectionItem(None, Some(JObject(B_a :> JNull @@ B_AB :> JNull @@ B_B :> JNull)),
                Some(JObject(B_a :> JNull @@ B_C :> JNull)))

KeyItems == {ItemAB, ItemBC, ItemScalar, ItemMixed}

Range(v) == {v[i] : i \in 1..Len(v)}

KeyInputs ==
    { x \in [ items : SeqsUpTo(KeyItems, MaxLen),
              other : SeqsUpTo(KeyItems, MaxLen + 1),
              sel : Tabs ] : Range(x.items) = Range(x.other) }

InitKeys ==
    /\ AppIdle
    /\ pc = "call"
    /\ arg \in KeyInputs
    /\ ret = None

CallCollectKeys ==
    /\ pc = "call"
    /\ ret' = <<collect_keys(arg.items, arg.sel), collect_keys(arg.other, arg.sel)>>
    /\ pc' = "done"
    /\ UNCHANGED <<appVars, arg>>

SpecKeys == InitKeys /\ [][CallCollectKeys]_vars

---------------------------------------------------------------------------
(* Properties                                                               *)

(* C1: after any reload (Refresh or a switch of data source) the selection *)
(* is none once the frame that reloaded has finished, whatever was selected *)
(* before and whatever the new list holds.                                  *)
C1_SelectionNoneAfterReload == reloaded => selected = None

(* C2, as stated: a reload resets the filters as well: afterwards the      *)
(* manufacturer filter is none, the tool filter is none and the search     *)
(* text is empty.                                                           *)
C2_FiltersResetByReload ==
    reloaded => /\ manufacturer_filter = None
                /\ tool_filter = None
                /\ search = EmptyString

(* C2, amended: a frame that reloads (Refresh or a switch of data source)  *)
(* leaves the manufacturer filter, the tool filter and the search text as  *)
(* they were.                                                               *)
C2_FiltersKeptByReload ==
    [][reloaded' => UNCHANGED <<manufacturer_filter, tool_filter, search>>]_vars

(* C2 witness: a reload has just run and all three filters are still set.  *)
C2_Witness ==
    /\ reloaded
    /\ manufacturer_filter # None
    /\ tool_filter # None
    /\ search # EmptyString

(* The display fields and the source key of each *)
DisplayFields ==
    { <<"essai_part", K_Message2>>, <<"edp_num", K_Message1>>,
      <<"manufacturer", K_Message3>>, <<"holder_name", K_HolderName>>,
      <<"outside_len", K_Length>>, <<"gage_len", K_HLength>>,
      <<"description", K_Description>>, <<"diameter", K_Diameter>>,
      <<"loc", K_CuttingLength>> }

(* Section sec is a key/value mapping that holds key k *)
HasKey(sec, k) == sec # None /\ sec[1].t = "Object" /\ k \in DOMAIN sec[1].m

(* The value of k in sec, as a string *)
ValueAt(sec, k) == val_to_string(sec[1].m[k])

PrimaryOf(t) == IF t.sc_tool_type = S_drilling THEN t.drilling_tool ELSE t.milling_tool

SecondaryOf(t) == IF t.sc_tool_type = S_drilling THEN t.milling_tool ELSE t.drilling_tool

(* C3, as stated: each display field is the primary section's value if it  *)
(* is present and non-empty; the secondary section's value if the primary  *)
(* value is missing or empty; the empty string if absent from both.        *)
C3_EmptyPrimaryFallsThrough ==
    pc = "done" =>
        \A fk \in DisplayFields :
            ret[fk[1]] =
                IF HasKey(PrimaryOf(arg), fk[2])
                   /\ ValueAt(PrimaryOf(arg), fk[2]) # EmptyString
                THEN ValueAt(PrimaryOf(arg), fk[2])
                ELSE IF HasKey(SecondaryOf(arg), fk[2])
                THEN ValueAt(SecondaryOf(arg), fk[2])
                ELSE EmptyString

(* C3, amended: each display field is the primary section's value whenever *)
(* the key is present there, even if that value is empty; the secondary    *)
(* section's value only if the key is absent from the primary section; the *)
(* empty string if the key is absent from both.                            *)
C3_AbsentPrimaryFallsThrough ==
    pc = "done" =>
        \A fk \in DisplayFields :
            ret[fk[1]] =
                IF HasKey(PrimaryOf(arg), fk[2])
                THEN ValueAt(PrimaryOf(arg), fk[2])
                ELSE IF HasKey(SecondaryOf(arg), fk[2])
                THEN ValueAt(SecondaryOf(arg), fk[2])
                ELSE EmptyString

(* C3 witness: the primary section holds the key with an empty value, the  *)
(* secondary holds a non-empty one, and the field came out empty.          *)
C3_Witness ==
    /\ pc = "done"
    /\ \E fk \in DisplayFields :
          /\ HasKey(PrimaryOf(arg), fk[2])
          /\ ValueAt(PrimaryOf(arg), fk[2]) = EmptyString
          /\ HasKey(SecondaryOf(arg), fk[2])
          /\ ValueAt(SecondaryOf(arg), fk[2]) # EmptyString
          /\ ret[fk[1]] = EmptyString

(* C4: the primary section is the drilling section exactly when tool_type  *)
(* is "drilling", the milling section otherwise: a key present in both     *)
(* sections resolves to the drilling value for drilling records and to the *)
(* milling value for all others; the Solfex section never contributes (a   *)
(* key in neither of the two gives the empty string) and is kept as it is. *)
C4_PrimaryByToolType ==
    pc = "done" =>
        /\ \A fk \in DisplayFields :
              /\ HasKey(arg.drilling_tool, fk[2]) /\ HasKey(arg.milling_tool, fk[2])
                   => ret[fk[1]] = IF arg.sc_tool_type = S_drilling
                                   THEN ValueAt(arg.drilling_tool, fk[2])
                                   ELSE ValueAt(arg.milling_tool, fk[2])
              /\ ~HasKey(arg.drilling_tool, fk[2]) /\ ~HasKey(arg.milling_tool, fk[2])
                   => ret[fk[1]] = EmptyString
        /\ ret.solfex = arg.solfex

(* C4 witness: a drilling record whose drilling and milling sections hold  *)
(* the key with different values, and whose Solfex section holds it too.   *)
C4_Witness ==
    /\ pc = "done"
    /\ arg.sc_tool_type = S_drilling
    /\ \E fk \in DisplayFields :
          /\ HasKey(arg.drilling_tool, fk[2])
          /\ HasKey(arg.milling_tool, fk[2])
          /\ HasKey(arg.solfex, fk[2])
          /\ ValueAt(arg.drilling_tool, fk[2]) # ValueAt(arg.milling_tool, fk[2])
          /\ ret[fk[1]] = ValueAt(arg.drilling_tool, fk[2])

(* Bytes a and b are the same letter up to ASCII case *)
SameLetter(a, b) ==
    \/ a = b
    \/ a \in 65..90 /\ b = a + 32
    \/ b \in 65..90 /\ a = b + 32

(* name contains txt, case-insensitively *)
ContainsIgnoringCase(name, txt) ==
    \E off \in 0..(Len(name) - Len(txt)) :
        \A j \in 1..Len(txt) : SameLetter(name[off + j], txt[j])

(* C5: passes follows the rule order, first applicable rule wins: (1) a    *)
(* set manufacturer filter that differs rejects; (2) otherwise a set tool  *)
(* filter decides alone (Family: essai_part equal; Class: essai_part and   *)
(* holder_name equal), the search text not applied; (3) otherwise accept   *)
(* iff the search text is empty or the name contains it case-insensitively.*)
C5_PassesRuleOrder ==
    pc = "done" =>
        ret = CASE manufacturer_filter # None
                   /\ arg.manufacturer # manufacturer_filter[1] -> FALSE
                [] tool_filter # None /\ tool_filter[1].kind = "Family" ->
                       arg.essai_part = tool_filter[1].part
                [] tool_filter # None /\ tool_filter[1].kind = "Class" ->
                       /\ arg.essai_part = tool_filter[1].part
                       /\ arg.holder_name = tool_filter[1].holder
                [] OTHER -> \/ search = EmptyString
                            \/ ContainsIgnoringCase(arg.tool_name, search)

(* C5 witness: no filter is set and the item is accepted by a search text  *)
(* that occurs in its name only up to case.                                 *)
C5_Witness ==
    /\ pc = "done"
    /\ manufacturer_filter = None
    /\ tool_filter = None
    /\ search # EmptyString
    /\ ~contains(arg.tool_name, search)
    /\ ret = TRUE

(* The fetched text is not a tool database: no JSON, no "tools" array, or  *)
(* an entry without tool_name or sc_tool_type                               *)
LacksField(e) ==
    \/ e.t # "Object"
    \/ K_tool_name \notin DOMAIN e.m
    \/ K_sc_tool_type \notin DOMAIN e.m

NotToolDatabase(text) ==
    \/ ~text.json
    \/ text.doc.t # "Object"
    \/ K_tools \notin DOMAIN text.doc.m
    \/ /\ text.doc.m[K_tools].t = "Array"
       /\ \E i \in 1..Len(text.doc.m[K_tools].a) : LacksField(text.doc.m[K_tools].a[i])

(* C6: loading never fails the caller: a failed fetch gives the empty text, *)
(* and a text that does not parse as the tool database (malformed, empty,  *)
(* or one entry missing tool_name) gives a record list of length 0, with   *)
(* the derived lists empty as after any load of an empty list.             *)
C6_FailedLoadIsEmpty ==
    /\ ~fetched.ok => fetch_db(fetched) = PlainText(EmptyString)
    /\ (~fetched.ok \/ NotToolDatabase(fetched.text)) =>
          /\ Len(items) = 0
          /\ manufacturers = <<>>
          /\ solfex_keys = <<>> /\ milling_keys = <<>> /\ drilling_keys = <<>>

(* C6 witness: a reload fetched a document with a good entry and one that  *)
(* lacks tool_name, and left the list empty.                                *)
C6_Witness ==
    /\ reloaded
    /\ fetched.ok
    /\ fetched.text = Document(<<EntryT1, EntryNoName>>)
    /\ items = <<>>

(* keys is strictly ascending in byte order *)
StrictlyAscending(keys) ==
    \A i \in 1..Len(keys) : \A j \in 1..Len(keys) : i < j => str_lt(keys[i], keys[j])

(* The keys of the current records' sections that are objects *)
KeysPresent(sel) ==
    UNION { IF section(items[i], sel) # None /\ section(items[i], sel)[1].t = "Object"
            THEN DOMAIN section(items[i], sel)[1].m ELSE {} : i \in 1..Len(items) }

KeysOfTab(sel) ==
    CASE sel = "Solfex" -> solfex_keys
      [] sel = "Milling" -> milling_keys
      [] sel = "Drilling" -> drilling_keys

(* C7: in every reachable state each of the three key sets is sorted       *)
(* ascending, has no duplicates, and holds exactly the keys of the         *)
(* corresponding section over the current record list.                     *)
C7_KeySetsOfCurrentList ==
    \A sel \in Tabs :
        /\ StrictlyAscending(KeysOfTab(sel))
        /\ Range(KeysOfTab(sel)) = KeysPresent(sel)

(* C7 witness: a reload loaded two records with Solfex keys {A,B} and      *)
(* {B,C}, and the key sets are those of the new list.                       *)
C7_Witness ==
    /\ reloaded
    /\ Len(items) = 2
    /\ solfex_keys = <<B_A, B_B, B_C>>
    /\ milling_keys = <<K_HolderName, K_Length, K_Message3>>

(* C8: collect_keys gives the same sorted, duplicate-free sequence for a   *)
(* record list and for any reordering or repetition of it; records with    *)
(* Solfex keys {A,B} and {B,C} give [A,B,C] in either order.               *)
C8_CollectKeysOrderIndependent ==
    pc = "done" =>
        /\ ret[1] = ret[2]
        /\ StrictlyAscending(ret[1])
        /\ (Range(arg.items) = {ItemAB, ItemBC} /\ arg.sel = "Solfex")
              => ret[1] = <<B_A, B_B, B_C>>

(* C8 witness: [A,B,C] from {B,C} then {A,B}, and from the reverse order.  *)
C8_Witness ==
    /\ pc = "done"
    /\ arg.items = <<ItemBC, ItemAB>>
    /\ arg.other = <<ItemAB, ItemBC>>
    /\ arg.sel = "Solfex"
    /\ ret = << <<B_A, B_B, B_C>>, <<B_A, B_B, B_C>> >>

(* C9: whenever the detail panel or the schema table reads the selection,  *)
(* a set selection is a valid index into the current record list.          *)
C9_SelectionInBounds == selected # None => selected[1] < Len(items)

(* A context action on row i *)
ContextAction(i) == ShowToolFamily(i) \/ ShowToolClass(i)

(* C10: an active tool filter has a non-empty part; the tool filter is set *)
(* only by the two context actions on a listed item with a non-empty       *)
(* essai_part, is cleared only by the chip's dismiss button, and a context *)
(* action on an item with an empty essai_part leaves it unchanged.         *)
C10_ToolFilterPart ==
    /\ [](tool_filter # None => tool_filter[1].part # EmptyString)
    /\ [][ /\ (tool_filter' # tool_filter /\ tool_filter' # None)
                => \E i \in 0..(Len(items) - 1) :
                      items[i + 1].essai_part # EmptyString /\ ContextAction(i)
           /\ (tool_filter # None /\ tool_filter' = None) => ChipDismiss
           /\ \A i \in 0..(Len(items) - 1) :
                (items[i + 1].essai_part = EmptyString /\ ContextAction(i))
                    => tool_filter' = tool_filter ]_vars

(* C10 witness: a tool filter is active while the list holds an item with  *)
(* an empty essai_part.                                                     *)
C10_Witness ==
    /\ tool_filter # None
    /\ \E i \in 1..Len(items) : items[i].essai_part = EmptyString

=============================================================================
